---------------------------- MODULE Spec2Model ----------------------------
(***************************************************************************)
(* State-machine model of library/image.extract.py: an Ansible module that *)
(* extracts a path from a layered container image (a tar archive holding a *)
(* manifest and one tar blob per layer) onto the local filesystem.         *)
(*                                                                         *)
(* A path is a sequence of one-character strings, so that the slicing,     *)
(* prefix tests and os.path conversions of the code are computed on the    *)
(* characters, as the code computes them.                                  *)
(***************************************************************************)
EXTENDS Integers, Sequences, FiniteSets, TLC

(***************************************************************************)
(* Python string and os.path (posixpath) operations.                       *)
(***************************************************************************)

\* The value None.
None == "None"

\* s[n:] for 0 <= n.
SliceFrom(s, n) == IF n >= Len(s) THEN << >> ELSE SubSeq(s, n + 1, Len(s))

\* s[:n] for 0 <= n.
SliceTo(s, n) == IF n >= Len(s) THEN s ELSE SubSeq(s, 1, n)

\* s.startswith(p)
startswith(s, p) == Len(p) <= Len(s) /\ SubSeq(s, 1, Len(p)) = p

\* s.endswith(p)
endswith(s, p) == Len(p) <= Len(s) /\ SubSeq(s, Len(s) - Len(p) + 1, Len(s)) = p

\* s.rfind('/') + 1: the index just after the last separator, 0 when none.
AfterLastSep(s) ==
    LET I == {i \in 1..Len(s) : s[i] = "/"}
    IN  IF I = {} THEN 0 ELSE CHOOSE i \in I : \A j \in I : j <= i

\* '/' in s
HasSep(s) == \E i \in 1..Len(s) : s[i] = "/"

\* s.rstrip('/')
RECURSIVE rstripSep(_)
rstripSep(s) ==
    IF s # << >> /\ s[Len(s)] = "/" THEN rstripSep(SubSeq(s, 1, Len(s) - 1)) ELSE s

\* os.path.isabs
isabs(s) == startswith(s, <<"/">>)

\* os.path.basename
basename(p) == SliceFrom(p, AfterLastSep(p))

\* os.path.dirname: the head up to the last separator, without its trailing
\* separators unless it consists of separators only.
dirname(p) ==
    LET head == SliceTo(p, AfterLastSep(p))
    IN  IF head # << >> /\ rstripSep(head) # << >> THEN rstripSep(head) ELSE head

\* os.path.join of two components.
join(a, b) ==
    IF startswith(b, <<"/">>) THEN b
    ELSE IF a = << >> \/ endswith(a, <<"/">>) THEN a \o b
    ELSE a \o <<"/">> \o b

\* s.split('/'): the components between the separators (empty ones kept).
RECURSIVE SplitSep(_)
SplitSep(s) ==
    LET I == {i \in 1..Len(s) : s[i] = "/"}
    IN  IF I = {} THEN <<s>>
        ELSE LET i == CHOOSE k \in I : \A j \in I : k <= j
             IN  <<SliceTo(s, i - 1)>> \o SplitSep(SliceFrom(s, i))

\* '/'.join(comps)
RECURSIVE JoinSep(_)
JoinSep(comps) ==
    IF comps = << >> THEN << >>
    ELSE IF Len(comps) = 1 THEN comps[1]
    ELSE comps[1] \o <<"/">> \o JoinSep(Tail(comps))

\* The loop of posixpath.normpath over the components: '' and '.' are
\* dropped, '..' removes the component before it where there is one to remove.
RECURSIVE NormComps(_, _, _)
NormComps(comps, acc, rooted) ==
    IF comps = << >> THEN acc
    ELSE LET c == Head(comps)
             dotdot == <<".", ".">>
         IN  IF c = << >> \/ c = <<".">> THEN NormComps(Tail(comps), acc, rooted)
             ELSE IF c # dotdot
                     \/ (~rooted /\ acc = << >>)
                     \/ (acc # << >> /\ acc[Len(acc)] = dotdot)
                  THEN NormComps(Tail(comps), Append(acc, c), rooted)
             ELSE IF acc # << >>
                  THEN NormComps(Tail(comps), SubSeq(acc, 1, Len(acc) - 1), rooted)
             ELSE NormComps(Tail(comps), acc, rooted)

\* os.path.normpath
normpath(p) ==
    IF p = << >> THEN <<".">>
    ELSE LET slashes == IF ~startswith(p, <<"/">>) THEN 0
                        ELSE IF startswith(p, <<"/", "/">>) /\ ~startswith(p, <<"/", "/", "/">>)
                             THEN 2 ELSE 1
             body == JoinSep(NormComps(SplitSep(p), << >>, slashes > 0))
             full == (IF slashes = 2 THEN <<"/", "/">>
                      ELSE IF slashes = 1 THEN <<"/">> ELSE << >>) \o body
         IN  IF full = << >> THEN <<".">> ELSE full


(***************************************************************************)
(* Bounds and inputs.                                                      *)
(***************************************************************************)

\* The longest manifest (number of layers) of an image.
MaxLayers == 2

\* The number of requests (elements of 'paths') processed over all sessions.
MaxRequests == 2

Str_ud   == <<"u", "/", "d">>
Str_udf  == <<"u", "/", "d", "/", "f">>
Str_udx  == <<"u", "/", "d", "x">>
Str_udxy == <<"u", "/", "d", "x", "y">>
Str_dotf == <<".", "/", "u", "/", "f">>
Str_D    == <<"D">>
Str_F    == <<"F">>
Str_cwd  == <<".">>

Member(n, k) == [name |-> n, kind |-> k]

\* The layer blobs an image is built from. Each is the member list of one
\* layer tar, in archive order; a member's kind is "file", "dir" or "other"
\* (a symlink, a device node, ...).  Blob_base holds a directory, a file in
\* it and a sibling whose name starts with the directory's; Blob_file a file
\* without the entry of its directory; Blob_link a symlink; Blob_mixed the
\* directory after a sibling.
Blob_base  == <<Member(Str_ud, "dir"), Member(Str_udf, "file"), Member(Str_udx, "file")>>
Blob_file  == <<Member(Str_udf, "file"), Member(Str_dotf, "file")>>
Blob_link  == <<Member(Str_udf, "other")>>
Blob_mixed == <<Member(Str_udxy, "file"), Member(Str_ud, "dir"), Member(Str_udf, "file")>>

LayerBlobs == {Blob_base, Blob_file, Blob_link, Blob_mixed}

\* The images: manifest['Layers'] resolved to the blobs, oldest layer first.
Images == UNION {[1..n -> LayerBlobs] : n \in 1..MaxLayers}

\* The 'src' values of a request, as the user gives them: an absolute file
\* path, a directory, a globbed directory and a file path that is not
\* normalised.  Each is absent from some of the images.
Srcs == {<<"/">> \o Str_udf, Str_ud, Str_ud \o <<"/", "*">>, Str_dotf}

\* The 'dest' values of a request: unset, an existing directory, a file path.
Dests == {None, Str_D, Str_F}

(***************************************************************************)
(* The filesystem: a function from normalised paths to entries.  The       *)
(* working directory (chdir) is ".", and relative paths resolve against it.*)
(***************************************************************************)

DirEntry == [kind |-> "dir", data |-> None]
FileEntry(d) == [kind |-> "file", data |-> d]

\* The content of member n of layer i.
Content(i, n) == [layer |-> i, name |-> n]

\* The path the operating system resolves p to (p taken relative to ".").
Key(p) == normpath(join(Str_cwd, p))

\* os.path.isfile / os.path.isdir on filesystem f.
isfile(f, p) == Key(p) \in DOMAIN f /\ f[Key(p)].kind = "file"
isdir(f, p) == Key(p) \in DOMAIN f /\ f[Key(p)].kind = "dir"

\* The directories above key k, nearest first, up to "." or "/".
RECURSIVE Ancestors(_)
Ancestors(k) ==
    LET d == dirname(k)
    IN  IF d = << >> \/ d = k THEN {} ELSE {d} \cup Ancestors(d)

\* The filesystem before the first session: the working directory and the
\* directory D.  Every file is one an earlier request has extracted.
InitialFilesystem == (Str_cwd :> DirEntry) @@ (Str_D :> DirEntry)

(***************************************************************************)
(* tarfile operations on a layer.                                          *)
(***************************************************************************)

\* A faulty lookup: a member whose name merely starts with the name counts.
getmemberByPrefix(layer, name) ==
    \E i \in 1..Len(layer) : startswith(layer[i].name, rstripSep(name))

\* TarFile.getmember(name) succeeds: some member is named name.rstrip('/').
getmember(layer, name) == \E i \in 1..Len(layer) : layer[i].name = rstripSep(name)

\* TarFile.extractall(members): the members are written in order under ".";
\* upper directories are created; a regular file cannot replace a directory
\* and nothing can be created under a regular file (OSError, raised with the
\* members before it already written).  i is the layer the archive is.
RECURSIVE extractall(_, _, _, _)
extractall(f, members, i, done) ==
    IF members = << >> THEN [fs |-> f, ok |-> TRUE, wrote |-> done]
    ELSE LET m == Head(members)
             k == Key(m.path)
             up == {a \in Ancestors(k) : a \notin DOMAIN f}
             blocked == \E a \in Ancestors(k) : a \in DOMAIN f /\ f[a].kind = "file"
             f1 == [a \in up |-> DirEntry] @@ f
         IN  IF blocked THEN [fs |-> f, ok |-> FALSE, wrote |-> done]
             ELSE IF m.kind = "file"
             THEN IF k \in DOMAIN f /\ f[k].kind = "dir"
                  THEN [fs |-> f1, ok |-> FALSE, wrote |-> done]
                  ELSE extractall((k :> FileEntry(Content(i, m.name))) @@ f1,
                                  Tail(members), i, done \cup {Content(i, m.name)})
             ELSE \* a directory: os.mkdir, an existing entry is left as it is
                  extractall(IF k \in DOMAIN f THEN f1 ELSE (k :> DirEntry) @@ f1,
                             Tail(members), i, done)


(***************************************************************************)
(* dir_members: the members of a layer that a request extracts, with the   *)
(* path each is extracted to.                                              *)
(***************************************************************************)

\* The number of leading characters cut from a member's name.
SubpathLen(src, globbed) ==
    (IF globbed THEN Len(src) ELSE Len(dirname(normpath(src))))
    + (IF HasSep(src) THEN 1 ELSE 0)

\* The members dir_members considers: regular files and directories whose
\* name starts with src.
Matches(m, src) == startswith(m.name, src) /\ m.kind \in {"dir", "file"}

\* A matching member's rewritten path.
MemberPath(m, dest, n, f) ==
    IF dest = None THEN SliceFrom(m.name, n)
    ELSE IF isdir(f, dest) THEN join(dest, SliceFrom(m.name, n))
    ELSE dest

\* The destination check: fail_json is called for a matching member.
NotADirectory(m, dest, globbed, f) ==
    dest # None /\ (globbed \/ m.kind = "dir") /\ ~isdir(f, dest)

RECURSIVE Collect(_, _, _, _, _, _)
Collect(layer, src, dest, globbed, f, acc) ==
    IF layer = << >> THEN [failed |-> FALSE, members |-> acc]
    ELSE LET m == Head(layer)
         IN  IF ~Matches(m, src) THEN Collect(Tail(layer), src, dest, globbed, f, acc)
             ELSE IF NotADirectory(m, dest, globbed, f)
                  THEN [failed |-> TRUE, members |-> << >>]
             ELSE Collect(Tail(layer), src, dest, globbed, f,
                          Append(acc, [name |-> m.name, kind |-> m.kind,
                                       path |-> MemberPath(m, dest, SubpathLen(src, globbed), f)]))

\* members[1:] when globbed.
SliceGlobbed(members, globbed) ==
    IF globbed /\ members # << >> THEN Tail(members) ELSE members

dir_members(layer, src, dest, globbed, f) ==
    LET c == Collect(layer, src, dest, globbed, f, << >>)
    IN  [failed |-> c.failed, members |-> SliceGlobbed(c.members, globbed)]

\* [member.path for member in members_list]
RECURSIVE PathsOf(_)
PathsOf(members) ==
    IF members = << >> THEN << >> ELSE <<Head(members).path>> \o PathsOf(Tail(members))

(***************************************************************************)
(* extract_path and run_module.                                            *)
(***************************************************************************)

\* run_module strips the leading '/' of an absolute src.
NormalizeSrc(s) == IF isabs(s) THEN SliceFrom(s, 1) ELSE s

\* src.endswith('/*')
IsGlobbed(s) == endswith(s, <<"/", "*">>)

\* The src extract_path looks up: without the trailing '/*'.
Target(s) == IF IsGlobbed(s) THEN SliceTo(s, Len(s) - 2) ELSE s

\* dest_file_exists of a request that is not globbed.
DestFileExists(src, dest, f) ==
    IF dest = None THEN isfile(f, basename(src))
    ELSE IF isdir(f, dest) THEN isfile(f, join(dest, basename(src)))
    ELSE isfile(f, dest)

\* A faulty early return: the negation of force is lost.
SkipExtractionForced(frc, dfe) == frc /\ dfe

\* The early return: "if not force and dest_file_exists".
SkipExtraction(frc, dfe) == ~frc /\ dfe

\* A faulty iteration: manifest['Layers'] is not reversed.
LayerAtOldestFirst(p, n) == p

\* The layer examined at position p (1 first) of reversed(manifest['Layers'])
\* of n layers.
LayerAt(p, n) == n - p + 1

\* A faulty finally clause: the handle is not closed.
ReleaseNothing(open, h) == open

\* The open layer handles after image_layer.close() on handle h.
Release(open, h) == open \ {h}

VARIABLES
    layers,          \* the image: manifest['Layers'] as blobs, oldest first
    fs,              \* the filesystem
    pc,              \* "idle", "loop", "scan", "finally", "returned", "done"
    force,           \* module.params['force'] of the session
    nreq,            \* requests started so far, over all sessions
    session_reqs,    \* requests started in this session
    call,            \* extract_path's arguments and locals
    pos,             \* position in reversed(manifest['Layers'])
    image_layer,     \* the layer the variable image_layer is bound to, 0: unbound
    open_layers,     \* the layers whose archive handle is open
    image_open,      \* whether the image's archive handle is open
    pending,         \* how the try block ended, while its finally clause runs
    ret,             \* how the last extract_path call ended
    extracted_paths, \* run_module's list of all extracted paths
    result,          \* what the session reported to Ansible
    fs0,             \* the filesystem when the last call began
    wrote,           \* the contents the last call wrote
    hit,             \* the layer the last call found its src in, 0: none
    scanned          \* the layers the last call opened, in order

vars == <<layers, fs, pc, force, nreq, session_reqs, call, pos, image_layer,
          open_layers, image_open, pending, ret, extracted_paths, result,
          fs0, wrote, hit, scanned>>

NoCall == [raw |-> << >>, src |-> << >>, dest |-> None, force |-> FALSE,
           globbed |-> FALSE, dest_file_exists |-> FALSE]
NoOutcome == [kind |-> "none", paths |-> << >>]
\* 'changed' is "True", "False", or "absent" when the report carries no result.
NoResult == [status |-> "none", changed |-> "absent"]

Init ==
    /\ layers \in Images
    /\ fs = InitialFilesystem
    /\ pc = "idle"
    /\ force = FALSE
    /\ nreq = 0
    /\ session_reqs = 0
    /\ call = NoCall
    /\ pos = 0
    /\ image_layer = 0
    /\ open_layers = {}
    /\ image_open = FALSE
    /\ pending = NoOutcome
    /\ ret = NoOutcome
    /\ extracted_paths = << >>
    /\ result = NoResult
    /\ fs0 = fs
    /\ wrote = {}
    /\ hit = 0
    /\ scanned = << >>

\* run_module up to the loop over 'paths': the image is opened, the manifest
\* read, result['changed'] is False.  A session follows the one before it on
\* the filesystem that one left.
RunModule(f) ==
    /\ pc \in {"idle", "done"}
    /\ nreq < MaxRequests
    /\ pc' = "loop"
    /\ force' = f
    /\ image_open' = TRUE
    /\ extracted_paths' = << >>
    /\ result' = NoResult
    /\ session_reqs' = 0
    /\ call' = NoCall
    /\ ret' = NoOutcome
    /\ pos' = 0
    /\ image_layer' = 0
    /\ fs0' = fs
    /\ wrote' = {}
    /\ hit' = 0
    /\ scanned' = << >>
    /\ UNCHANGED <<layers, fs, nreq, open_layers, pending>>

\* The next element of 'paths': extract_path(src, dest, force) up to its loop
\* over the layers, or to its early return of an empty list.
ExtractPath(s, d) ==
    /\ pc = "loop"
    /\ nreq < MaxRequests
    /\ LET src == Target(NormalizeSrc(s))
           globbed == IsGlobbed(NormalizeSrc(s))
           frc == globbed \/ force
           dfe == IF globbed THEN FALSE ELSE DestFileExists(src, d, fs)
       IN  /\ call' = [raw |-> s, src |-> src, dest |-> d, force |-> frc,
                       globbed |-> globbed, dest_file_exists |-> dfe]
           /\ IF SkipExtraction(frc, dfe)
              THEN /\ ret' = [kind |-> "return", paths |-> << >>]
                   /\ pc' = "returned"
              ELSE /\ ret' = NoOutcome
                   /\ pc' = "scan"
    /\ nreq' = nreq + 1
    /\ session_reqs' = session_reqs + 1
    /\ pos' = 1
    /\ fs0' = fs
    /\ UNCHANGED <<layers, fs, force, image_layer, open_layers, image_open, pending,
                   extracted_paths, result, wrote, hit, scanned>>

\* extract_path has returned: run_module extends extracted_paths with the
\* list (set_ownership does nothing, no owner or group being given), and the
\* locals of the call are gone.
Continue ==
    /\ pc = "returned"
    /\ extracted_paths' = extracted_paths \o ret.paths
    /\ pc' = "loop"
    /\ call' = NoCall
    /\ ret' = NoOutcome
    /\ pos' = 0
    /\ image_layer' = 0
    /\ fs0' = fs
    /\ wrote' = {}
    /\ hit' = 0
    /\ scanned' = << >>
    /\ UNCHANGED <<layers, fs, force, nreq, session_reqs, open_layers, image_open,
                   pending, result>>

\* The try block on the next layer: tarfile.open, getmember, dir_members,
\* extractall, return.  It leaves the layer's handle open for the finally
\* clause.
TryLayer ==
    /\ pc = "scan"
    /\ pos <= Len(layers)
    /\ LET i == LayerAt(pos, Len(layers))
       IN  /\ image_layer' = i
           /\ open_layers' = open_layers \cup {i}
           /\ scanned' = Append(scanned, i)
           /\ IF ~getmember(layers[i], call.src)
              THEN /\ pending' = [kind |-> "continue", paths |-> << >>]
                   /\ UNCHANGED <<fs, wrote, hit>>
              ELSE LET dm == dir_members(layers[i], call.src, call.dest, call.globbed, fs)
                       ex == extractall(fs, dm.members, i, {})
                   IN  /\ hit' = i
                       /\ IF dm.failed
                          THEN /\ pending' = [kind |-> "SystemExit", paths |-> << >>]
                               /\ UNCHANGED <<fs, wrote>>
                          ELSE /\ fs' = ex.fs
                               /\ wrote' = ex.wrote
                               /\ pending' = [kind |-> IF ex.ok THEN "return" ELSE "Exception",
                                              paths |-> IF ex.ok THEN PathsOf(dm.members)
                                                        ELSE << >>]
    /\ pc' = "finally"
    /\ UNCHANGED <<layers, force, nreq, session_reqs, call, pos, image_open, ret,
                   extracted_paths, result, fs0>>

\* The finally clause, and where control goes after it: the next layer, back
\* to run_module's loop with the extracted paths, or out of the session
\* (fail_json from dir_members carries no result; the handler of run_module
\* reports the result it has, in which changed is still False).
CloseLayer ==
    /\ pc = "finally"
    /\ open_layers' = Release(open_layers, image_layer)
    /\ pending' = NoOutcome
    /\ CASE pending.kind = "continue" ->
              /\ pos' = pos + 1
              /\ pc' = "scan"
              /\ UNCHANGED <<ret, extracted_paths, result, image_open>>
         [] pending.kind = "return" ->
              /\ ret' = pending
              /\ pc' = "returned"
              /\ UNCHANGED <<pos, extracted_paths, result, image_open>>
         [] pending.kind = "Exception" ->
              /\ ret' = pending
              /\ result' = [status |-> "fail", changed |-> "False"]
              /\ pc' = "done"
              /\ image_open' = FALSE
              /\ UNCHANGED <<pos, extracted_paths>>
         [] OTHER ->
              /\ ret' = pending
              /\ result' = [status |-> "fail", changed |-> "absent"]
              /\ pc' = "done"
              /\ image_open' = FALSE
              /\ UNCHANGED <<pos, extracted_paths>>
    /\ UNCHANGED <<layers, fs, force, nreq, session_reqs, call, image_layer, fs0,
                   wrote, hit, scanned>>

\* No layer is left: extract_path raises KeyError, run_module fails.
NotFound ==
    /\ pc = "scan"
    /\ pos > Len(layers)
    /\ ret' = [kind |-> "KeyError", paths |-> << >>]
    /\ result' = [status |-> "fail", changed |-> "False"]
    /\ pc' = "done"
    /\ image_open' = FALSE
    /\ UNCHANGED <<layers, fs, force, nreq, session_reqs, call, pos, image_layer,
                   open_layers, pending, extracted_paths, fs0, wrote, hit, scanned>>

\* The end of 'paths': exit_json with changed set from extracted_paths.
ExitJson ==
    /\ pc = "loop"
    /\ session_reqs > 0
    /\ result' = [status |-> "exit",
                  changed |-> IF extracted_paths # << >> THEN "True" ELSE "False"]
    /\ pc' = "done"
    /\ image_open' = FALSE
    /\ UNCHANGED <<layers, fs, force, nreq, session_reqs, call, pos, image_layer,
                   open_layers, pending, ret, extracted_paths, fs0, wrote, hit,
                   scanned>>

Next ==
    \/ \E f \in BOOLEAN : RunModule(f)
    \/ \E s \in Srcs, d \in Dests : ExtractPath(s, d)
    \/ TryLayer
    \/ CloseLayer
    \/ Continue
    \/ NotFound
    \/ ExitJson

Spec == Init /\ [][Next]_vars


(***************************************************************************)
(* Vocabulary of the properties.                                           *)
(***************************************************************************)

\* A call of extract_path has begun in this session and its locals are live.
InCall == call # NoCall

\* The layers holding a member named exactly n, and the newest of them.
Containing(n) == {i \in 1..Len(layers) : \E j \in 1..Len(layers[i]) : layers[i][j].name = n}
Newest(n) == CHOOSE i \in Containing(n) : \A j \in Containing(n) : j <= i

\* The kind of the member named n in layer i (which holds one).
KindIn(i, n) == (CHOOSE m \in {layers[i][j] : j \in 1..Len(layers[i])} : m.name = n).kind

\* The layers holding a member whose name equals n or has n as a prefix.
ContainingPrefix(n) ==
    {i \in 1..Len(layers) : \E j \in 1..Len(layers[i]) : startswith(layers[i][j].name, n)}

\* The elements of a sequence.
Range(q) == {q[i] : i \in 1..Len(q)}

\* The call returned a list to run_module.
Returned == pc = "returned" /\ ret.kind = "return"

\* The call went through the layers and returned what it extracted.
ReturnedFromScan == Returned /\ scanned # << >>

\* C1: when an exact request for a path m held by two or more layers goes
\* through the layers, everything it writes comes from the newest layer
\* holding m, and where m is a regular file there, m's content of that layer
\* is written.
C1_Shadowing ==
    (InCall /\ ~call.globbed /\ Cardinality(Containing(call.src)) >= 2)
        => /\ \A c \in wrote : c.layer = Newest(call.src)
           /\ (ReturnedFromScan /\ KindIn(Newest(call.src), call.src) = "file")
                 => Content(Newest(call.src), call.src) \in wrote

\* A regular file held by two layers as a regular file has been extracted.
C1_Witness ==
    /\ ReturnedFromScan
    /\ ~call.globbed
    /\ \E i, j \in Containing(call.src) :
          i < j /\ KindIn(i, call.src) = "file" /\ KindIn(j, call.src) = "file"
    /\ Content(Newest(call.src), call.src) \in wrote

\* C2: a request whose src no layer holds fails with the path-not-found error
\* and writes nothing; it never returns a list.
C2_NotFound ==
    (InCall /\ Containing(call.src) = {})
        => /\ fs = fs0
           /\ ret.kind \in {"none", "KeyError"}
           /\ pc \in {"returned", "done"} => ret.kind = "KeyError"

\* The path an exact request for the regular file src is extracted to, on
\* filesystem f.
ExtractedTo(f) ==
    MemberPath(Member(call.src, "file"), call.dest, SubpathLen(call.src, FALSE), f)

\* The file an earlier request for the same src and dest extracted is in
\* place, unmodified, when the call begins.
AlreadyExtracted ==
    /\ Containing(call.src) # {}
    /\ KindIn(Newest(call.src), call.src) = "file"
    /\ isfile(fs0, ExtractedTo(fs0))
    /\ fs0[Key(ExtractedTo(fs0))].data = Content(Newest(call.src), call.src)

\* C3: an exact request without force for a file that a request with the same
\* src and dest has extracted before returns an empty list, leaves the
\* filesystem as it was, and adds nothing to what the session reports as
\* changed.
C3_Idempotence ==
    (pc = "returned" /\ ~call.globbed /\ ~call.force /\ AlreadyExtracted)
        => /\ ret.paths = << >>
           /\ fs = fs0
           /\ extracted_paths \o ret.paths = extracted_paths

\* The paths a globbed request for P/* with dest D extracts from layer i,
\* as C4 states them: D joined with the name less 'P/' of every file or
\* directory strictly under P.
GlobExpected(i) ==
    {join(call.dest, SliceFrom(layers[i][j].name, Len(call.src) + 1)) :
        j \in {k \in 1..Len(layers[i]) :
                 /\ layers[i][k].kind \in {"dir", "file"}
                 /\ startswith(layers[i][k].name, call.src \o <<"/">>)
                 /\ Len(layers[i][k].name) > Len(call.src) + 1}}

\* C4: a globbed request with an existing directory as dest extracts exactly
\* the members strictly under the directory, each to dest joined with its name
\* less the prefix.
C4_GlobPrefix ==
    (ReturnedFromScan /\ call.globbed /\ call.dest # None /\ isdir(fs0, call.dest))
        => Range(ret.paths) = GlobExpected(hit)

\* The members of layer i that the request matches.
Matched(i) == {layers[i][j] : j \in {k \in 1..Len(layers[i]) : Matches(layers[i][k], call.src)}}

\* C5: a request with a dest that is no existing directory, whose match is
\* globbed or holds a directory, fails with the invalid-destination error
\* (fail_json from dir_members) and writes nothing.
C5_DestMustBeDir ==
    (/\ InCall /\ pc \in {"returned", "done"}
     /\ call.dest # None /\ ~isdir(fs0, call.dest)
     /\ Containing(call.src) # {}
     /\ Matched(Newest(call.src)) # {}
     /\ (call.globbed \/ \E m \in Matched(Newest(call.src)) : m.kind = "dir"))
        => ret.kind = "SystemExit" /\ fs = fs0

\* C6: the changed flag a session reports is true exactly when a request of
\* the session returned a list that is not empty.
C6_Aggregate ==
    pc = "done" => ((result.changed = "True") <=> (extracted_paths # << >>))

\* The file whose existence makes an exact request without force return
\* early, as the amended C7 states it.
C7_Destination ==
    IF call.dest = None THEN basename(call.src)
    ELSE IF Key(call.dest) \in DOMAIN fs0 /\ fs0[Key(call.dest)].kind = "dir"
         THEN call.dest \o <<"/">> \o basename(call.src)
    ELSE call.dest

\* An exact request without force finds a file at its destination.
C7_FileAtDestination ==
    /\ InCall /\ ~call.globbed /\ ~force
    /\ Key(C7_Destination) \in DOMAIN fs0
    /\ fs0[Key(C7_Destination)].kind = "file"

\* The member the request names is a regular file whose content is that of
\* the file at the destination.
C7_SameContent ==
    /\ Containing(call.src) # {}
    /\ KindIn(Newest(call.src), call.src) = "file"
    /\ fs0[Key(C7_Destination)].data = Content(Newest(call.src), call.src)

\* C7 as claimed: with a file at the destination, extraction is skipped only
\* when the contents are equal; when they differ the member is extracted and
\* its path returned.
C7_ContentCheck ==
    (C7_FileAtDestination /\ Returned /\ Containing(call.src) # {}
        /\ KindIn(Newest(call.src), call.src) = "file")
        => IF C7_SameContent THEN ret.paths = << >> /\ fs = fs0
           ELSE ret.paths # << >>

\* C7 amended: with a file at the destination, extraction is skipped whatever
\* the contents: the call returns the empty list at once, no layer is opened
\* and the filesystem is as it was.
C7_ExistenceCheck ==
    C7_FileAtDestination
        => /\ Returned
           /\ ret.paths = << >>
           /\ scanned = << >>
           /\ fs = fs0

\* Extraction was skipped over a file whose content differs from the member's.
C7_Witness ==
    /\ C7_FileAtDestination
    /\ Returned
    /\ Containing(call.src) # {}
    /\ KindIn(Newest(call.src), call.src) = "file"
    /\ ~C7_SameContent

\* C8: a request whose src is, in the newest layer holding it, neither a
\* regular file nor a directory fails; the call does not go through the
\* layers and then return a list to run_module.
C8_InvalidKind ==
    (InCall /\ Containing(call.src) # {} /\ KindIn(Newest(call.src), call.src) = "other")
        => ~ReturnedFromScan

\* The layers are opened newest first, one after the other.
NewestFirst == \A k \in 1..Len(scanned) : scanned[k] = Len(layers) - k + 1

\* C9 as claimed: the layer the members come from is the newest layer holding
\* a member whose name equals the target or has it as a prefix.
C9_PrefixHit ==
    /\ NewestFirst
    /\ hit > 0 => /\ \A i \in ContainingPrefix(call.src) : i <= hit
                  /\ \A c \in wrote : c.layer = hit

\* C9 amended: the layers are opened newest first, and the layer the members
\* come from is the newest layer holding a member named exactly the target; a
\* newer layer holding only entries beneath the target is passed over.  A call
\* ends with the not-found error only after every layer was opened.
C9_ExactHit ==
    /\ NewestFirst
    /\ hit > 0 => /\ hit \in Containing(call.src)
                  /\ \A i \in Containing(call.src) : i <= hit
                  /\ \A c \in wrote : c.layer = hit
    /\ (InCall /\ hit = 0) => \A i \in Range(scanned) : i \notin Containing(call.src)
    /\ ret.kind = "KeyError" => Containing(call.src) = {} /\ Len(scanned) = Len(layers)

\* A directory was extracted from an older layer although a newer layer holds
\* entries beneath it.
C9_Witness ==
    /\ ReturnedFromScan
    /\ wrote # {}
    /\ \E i \in ContainingPrefix(call.src) : i > hit

\* C10: at most one layer handle is open at any moment, and only while the
\* finally clause of the layer that opened it is still to run; between the
\* layers, after a call and after the session none is open.  The image's
\* handle is open throughout the session and closed at its end.
C10_ScopedHandles ==
    /\ Cardinality(open_layers) <= 1
    /\ pc = "finally" => open_layers = {image_layer}
    /\ pc # "finally" => open_layers = {}
    /\ image_open <=> pc \in {"loop", "scan", "finally", "returned"}

\* A second layer is open, the first one opened by the call having been
\* closed, in a request that is not the session's first.
C10_Witness ==
    /\ pc = "finally"
    /\ Len(scanned) >= 2
    /\ session_reqs >= 2
    /\ open_layers = {image_layer}
    /\ image_open

=============================================================================
